---- MODULE Spec2Model ----
(***************************************************************************)
(* A model of the news summarization engine (class NewsSummarizer) and of  *)
(* its phrase-extraction worker.                                           *)
(*                                                                         *)
(* Strings are modelled as sequences of one-character strings, so that     *)
(* slicing, concatenation, splitting and bigram counting are computed as   *)
(* the code computes them.                                                 *)
(***************************************************************************)
EXTENDS Integers, Sequences, FiniteSets, TLC

VARIABLES
    similarityCache,  \* this.similarityCache: a Map, kept as the sequence of its
                      \* entries [key, value] in insertion order
    phraseCache,      \* this.phraseCache, kept the same way
    workers,          \* this.workerPool: per worker, whether its thread lives, the
                      \* messages posted to it and not yet answered, and the jobs
                      \* whose once('message') listener is registered on it
    jobs,             \* the promises made by extractKeyPhrasesParallel on a cache
                      \* miss, in order of creation
    cacheLog,         \* history: the Map operations made by the last operation
    ddPc,             \* the caller of removeDuplicateInfo: "idle" or "returned"
    ddIn,             \* argument of the last removeDuplicateInfo call
    ddOut,            \* value returned by the last removeDuplicateInfo call
    exLast,           \* the last direct call of extractKeyPhrasesParallel: its
                      \* text and what it returned
    call,             \* the summarize call in progress or last finished
    call2,            \* a second summarize call, made while the first is in
                      \* progress
    nCalls,           \* number of summarize calls made
    articles,         \* the argument of the first summarize call, as the caller
                      \* passed it
    isProcessing,     \* NewsScheduler.isProcessing
    retryCount,       \* NewsScheduler.retryCount
    retryTimers,      \* number of setTimeout retry timers that have not fired
    alerts,           \* history: number of alertFailure calls made
    updates,          \* the processUpdate bodies in progress: each the caller
                      \* that invoked it and the await it stands at
    nUpdates,         \* number of processUpdate calls made
    skips,            \* history: number of processUpdate calls that returned at
                      \* the isProcessing test
    refreshTails,     \* POST /api/refresh handlers whose processUpdate call has
                      \* returned and that have not gone on yet
    dbArticles,       \* the articles table: the number of the save that wrote it
    metadata,         \* the keys of the metadata table
    responseCache,    \* the cache of server.js (node-cache): the value under
                      \* the key 'summary', or NoEntry
    invalidated,      \* history: dbArticles at the last cache.del('summary') of
                      \* processUpdate
    requests          \* the GET /api/summary handlers and background refreshes,
                      \* in order of start

engineVars == <<similarityCache, phraseCache, workers, jobs, cacheLog>>
dedupVars  == <<ddPc, ddIn, ddOut>>
sumVars    == <<call, call2, nCalls, articles>>
schedVars  == <<isProcessing, retryCount, retryTimers, alerts, updates, nUpdates,
                skips, refreshTails>>
serverVars == <<dbArticles, metadata, responseCache, invalidated, requests>>
vars == <<engineVars, dedupVars, exLast, sumVars, schedVars, serverVars>>

(***************************************************************************)
(* Bounds of the model.                                                    *)
(***************************************************************************)
\* Capacity of the two memoization Maps.  The code uses 1000; the model
\* keeps the same insertion and eviction code with a small capacity so that
\* a full Map and evictions are reachable.
MaxCacheSize == 2

\* Longest array handed to removeDuplicateInfo by a direct call.
MaxSentences == 3

\* Size of the worker pool: max(1, cpus().length - 1) on the host.
NumWorkers == 2

\* Number of extraction jobs posted by direct calls of
\* extractKeyPhrasesParallel over the life of an engine.
MaxJobs == 3

\* Longest array handed to summarize, and the number of summarize calls.
MaxArticles == 3
MaxCalls == 1

(***************************************************************************)
(* Characters and strings.                                                 *)
(***************************************************************************)
\* The characters \s matches, among those of the texts modelled.
SpaceChars == {" ", "\t", "\n"}

IsSpace(c) == c \in SpaceChars

\* A value that is not a string (null).  `${x}` renders it as "null".
Null == <<"<null>">>

IsString(x) == x # Null

NullText == <<"n", "u", "l", "l">>

\* Template-literal rendering `${x}`.
ToStr(x) == IF IsString(x) THEN x ELSE NullText

RECURSIVE Flatten(_)
Flatten(ss) == IF ss = <<>> THEN <<>> ELSE Head(ss) \o Flatten(Tail(ss))

\* Index of the first occurrence of x in seq, 0 when absent.
IndexOf(seq, x) ==
    IF \E i \in 1..Len(seq) : seq[i] = x
    THEN CHOOSE i \in 1..Len(seq) : seq[i] = x /\ \A j \in 1..(i - 1) : seq[j] # x
    ELSE 0

RemoveAt(seq, i) == SubSeq(seq, 1, i - 1) \o SubSeq(seq, i + 1, Len(seq))

(***************************************************************************)
(* A JavaScript Map, as the sequence of its entries in insertion order.    *)
(***************************************************************************)
MapKeys(m) == [i \in 1..Len(m) |-> m[i].key]

MapHas(m, k) == \E i \in 1..Len(m) : m[i].key = k

MapGet(m, k) == m[IndexOf(MapKeys(m), k)].value

\* A variant of set that moves a key already present to the end, as a cache
\* ordered by recency of use would.
MapSetMovingToEnd(m, k, v) ==
    Append(SelectSeq(m, LAMBDA e : e.key # k), [key |-> k, value |-> v])

\* Map.prototype.set: a key already present keeps its place and takes the new
\* value; a new key is appended.
MapSet(m, k, v) ==
    IF MapHas(m, k)
    THEN [i \in 1..Len(m) |-> IF m[i].key = k THEN [key |-> k, value |-> v] ELSE m[i]]
    ELSE Append(m, [key |-> k, value |-> v])

\* A variant of the size limit that compares with one more than the capacity.
LimitCacheSizeOffByOne(m) == IF Len(m) > MaxCacheSize + 1 THEN Tail(m) ELSE m

\* if (cache.size > 1000) { cache.delete(cache.keys().next().value) }
LimitCacheSize(m) == IF Len(m) > MaxCacheSize THEN Tail(m) ELSE m

\* cache.set(key, value) followed by the size limit, as both caches do.
CacheStore(m, k, v) == LimitCacheSize(MapSet(m, k, v))

\* History records of the Map operations.
LogHit(name, m, k) ==
    [cache |-> name, op |-> "get", key |-> k, before |-> MapKeys(m), after |-> MapKeys(m)]

LogStore(name, m, k, v) ==
    [cache |-> name, op |-> "set", key |-> k,
     before |-> MapKeys(m), after |-> MapKeys(CacheStore(m, k, v))]

(***************************************************************************)
(* stringSimilarity.compareTwoStrings: the Dice coefficient of the two     *)
(* strings' character bigrams, white space removed.  The value is kept as  *)
(* a fraction num/den.                                                     *)
(***************************************************************************)
RemoveWhitespace(s) == SelectSeq(s, LAMBDA c : ~IsSpace(c))

Bigrams(s) == [i \in 1..(Len(s) - 1) |-> <<s[i], s[i + 1]>>]

\* Size of the multiset intersection: every bigram of the second string uses
\* up one matching bigram of the first.
RECURSIVE IntersectionSize(_, _)
IntersectionSize(firstBigrams, secondBigrams) ==
    IF secondBigrams = <<>> THEN 0
    ELSE LET i == IndexOf(firstBigrams, Head(secondBigrams))
         IN  IF i = 0
             THEN IntersectionSize(firstBigrams, Tail(secondBigrams))
             ELSE 1 + IntersectionSize(RemoveAt(firstBigrams, i), Tail(secondBigrams))

compareTwoStrings(a, b) ==
    LET first  == RemoveWhitespace(a)
        second == RemoveWhitespace(b)
    IN  IF first = second THEN [num |-> 1, den |-> 1]
        ELSE IF Len(first) < 2 \/ Len(second) < 2 THEN [num |-> 0, den |-> 1]
        ELSE [num |-> 2 * IntersectionSize(Bigrams(first), Bigrams(second)),
              den |-> Len(first) + Len(second) - 2]

\* similarity > 0.6
AboveThreshold(sim) == sim.num * 10 > 6 * sim.den

(***************************************************************************)
(* removeDuplicateInfo.                                                    *)
(***************************************************************************)
ChunkSize == 10

SimilarityKey(sentence, other) == ToStr(sentence) \o <<":">> \o ToStr(other)

\* The operations below take the engine state st (EngineState) and return
\* the engine state after them; what the operation returns is left in a field
\* of it (found, out, ref).

\* A variant that takes a comparison that fails for a similar pair.
IsSimilarToOnFailure(sentence, other, st) ==
    LET cacheKey == SimilarityKey(sentence, other)
    IN  IF MapHas(st.sims, cacheKey)
        THEN [st EXCEPT !.found = AboveThreshold(MapGet(st.sims, cacheKey)),
                        !.log = Append(@, LogHit("similarity", st.sims, cacheKey))]
        ELSE IF ~IsString(other)
        THEN [st EXCEPT !.found = TRUE]
        ELSE LET similarity == compareTwoStrings(sentence, other)
             IN  [st EXCEPT
                    !.found = AboveThreshold(similarity),
                    !.sims = CacheStore(@, cacheKey, similarity),
                    !.log = Append(@, LogStore("similarity", st.sims, cacheKey,
                                               similarity))]

\* The callback of prevSentences.some: is `sentence` similar to `other`?  The
\* answer is left in st.found.  Comparing with a non-string makes
\* compareTwoStrings throw; the catch answers false.
IsSimilarTo(sentence, other, st) ==
    LET cacheKey == SimilarityKey(sentence, other)
    IN  IF MapHas(st.sims, cacheKey)
        THEN [st EXCEPT !.found = AboveThreshold(MapGet(st.sims, cacheKey)),
                        !.log = Append(@, LogHit("similarity", st.sims, cacheKey))]
        ELSE IF ~IsString(other)
        THEN [st EXCEPT !.found = FALSE]
        ELSE LET similarity == compareTwoStrings(sentence, other)
             IN  [st EXCEPT
                    !.found = AboveThreshold(similarity),
                    !.sims = CacheStore(@, cacheKey, similarity),
                    !.log = Append(@, LogStore("similarity", st.sims, cacheKey,
                                               similarity))]

\* prevSentences.some(...) from the sentences not yet visited on: stops at the
\* first similar sentence.  st.found is false when the visit starts.
RECURSIVE SomeSimilar(_, _, _)
SomeSimilar(sentence, prevSentences, st) ==
    IF st.found \/ prevSentences = <<>> THEN st
    ELSE SomeSimilar(sentence, Tail(prevSentences),
                     IsSimilarTo(sentence, Head(prevSentences), st))

\* The filter keeps the sentence when no earlier sentence is similar to it.
KeepUnlessFound(sentence, st) ==
    IF st.found THEN st ELSE [st EXCEPT !.kept = Append(@, sentence)]

\* chunk.filter((sentence, index) => ...), from position `index` on; st.kept
\* collects the sentences that pass.
RECURSIVE FilterChunk(_, _, _, _)
FilterChunk(chunk, index, acc, st) ==
    IF index > Len(chunk) THEN st
    ELSE IF chunk[index] = <<>> \/ ~IsString(chunk[index])
    THEN FilterChunk(chunk, index + 1, acc, st)
    ELSE FilterChunk(chunk, index + 1, acc,
             KeepUnlessFound(chunk[index],
                 SomeSimilar(chunk[index], acc \o SubSeq(chunk, 1, index - 1),
                             [st EXCEPT !.found = FALSE])))

\* A variant that puts the filtered chunk in front of acc.
PrependKept(st) == [st EXCEPT !.out = st.kept \o @]

\* acc.concat(filtered chunk)
ConcatKept(st) == [st EXCEPT !.out = @ \o st.kept]

\* chunks.reduce((acc, chunk) => acc.concat(chunk.filter(...)), []), over the
\* chunks of `sentences` that start at position `from`; st.out is acc.
RECURSIVE ReduceChunks(_, _, _)
ReduceChunks(sentences, from, st) ==
    IF from > Len(sentences) THEN st
    ELSE ReduceChunks(sentences, from + ChunkSize,
             ConcatKept(FilterChunk(
                 SubSeq(sentences, from,
                        IF from + ChunkSize - 1 < Len(sentences)
                        THEN from + ChunkSize - 1 ELSE Len(sentences)),
                 1, st.out, [st EXCEPT !.kept = <<>>])))

\* removeDuplicateInfo(sentences) on an array; the array returned is left in
\* st.out.
removeDuplicateInfo(sentences, st) ==
    ReduceChunks(sentences, 1, [st EXCEPT !.out = <<>>])

(***************************************************************************)
(* The phrase worker: parentPort.on('message', ({ text, commonWords }) ...) *)
(***************************************************************************)
UpperChars == <<"A", "B", "C", "D", "E", "F", "G", "H", "I", "J", "K", "L", "M",
                "N", "O", "P", "Q", "R", "S", "T", "U", "V", "W", "X", "Y", "Z">>
LowerChars == <<"a", "b", "c", "d", "e", "f", "g", "h", "i", "j", "k", "l", "m",
                "n", "o", "p", "q", "r", "s", "t", "u", "v", "w", "x", "y", "z">>
DigitChars == <<"0", "1", "2", "3", "4", "5", "6", "7", "8", "9">>

Range(f) == {f[i] : i \in DOMAIN f}

\* String.prototype.toLowerCase
ToLowerChar(c) ==
    IF c \in Range(UpperChars) THEN LowerChars[IndexOf(UpperChars, c)] ELSE c
toLowerCase(s) == [i \in 1..Len(s) |-> ToLowerChar(s[i])]

\* \w of a regular expression
IsWordChar(c) == c \in Range(UpperChars) \cup Range(LowerChars) \cup Range(DigitChars) \cup {"_"}

\* .replace(/[^\w\s]/g, '')
StripPunctuation(s) == SelectSeq(s, LAMBDA c : IsWordChar(c) \/ IsSpace(c))

\* The k-th smallest element of a finite set of integers.
KthSmallest(S, k) == CHOOSE x \in S : Cardinality({y \in S : y < x}) = k - 1

\* String.prototype.split with a separator pattern that matches every maximal
\* run of the characters in seps: the pieces between the runs in order, with
\* an empty piece in front when the string starts with a separator and an
\* empty piece at the end when it ends with one; the empty string gives one
\* empty piece.
SplitRuns(s, seps) ==
    LET n       == Len(s)
        starts  == {i \in 1..n : s[i] \notin seps /\ (i = 1 \/ s[i - 1] \in seps)}
        EndOf(i) == CHOOSE j \in i..n :
                        /\ \A k \in i..j : s[k] \notin seps
                        /\ (j = n \/ s[j + 1] \in seps)
        runs    == [k \in 1..Cardinality(starts) |->
                       LET i == KthSmallest(starts, k) IN SubSeq(s, i, EndOf(i))]
    IN  IF n = 0 THEN <<<<>>>>
        ELSE (IF s[1] \in seps THEN <<<<>>>> ELSE <<>>)
             \o runs
             \o (IF s[n] \in seps THEN <<<<>>>> ELSE <<>>)

\* .split(/\s+/)
SplitWhitespace(s) == SplitRuns(s, SpaceChars)

\* words.slice(i, i + 3).join(' ')
JoinThree(words, i) == words[i] \o <<" ">> \o words[i + 1] \o <<" ">> \o words[i + 2]

\* The message handler of the worker: the phrases posted back for one job.
ExtractPhrases(text, commonWords) ==
    LET words == SelectSeq(SplitWhitespace(StripPunctuation(toLowerCase(text))),
                           LAMBDA word : word \notin commonWords)
    IN  [i \in 1..(Len(words) - 2) |-> JoinThree(words, i)]

(***************************************************************************)
(* extractKeyPhrasesParallel and the worker pool.                          *)
(***************************************************************************)
\* this.commonWords
CommonWords ==
    { <<"t","h","e">>, <<"b","e">>, <<"t","o">>, <<"o","f">>, <<"a","n","d">>,
      <<"a">>, <<"i","n">>, <<"t","h","a","t">>, <<"h","a","v","e">>, <<"i">>,
      <<"i","t">>, <<"f","o","r">>, <<"n","o","t">>, <<"o","n">>,
      <<"w","i","t","h">>, <<"h","e">>, <<"a","s">>, <<"y","o","u">>,
      <<"d","o">>, <<"a","t">> }

Workers == 1..NumWorkers

\* An absent key of the response cache.
NoEntry == [absent |-> TRUE]

\* text.slice(0, 100)
PhraseKeyLength == 100
PhraseKey(text) ==
    SubSeq(text, 1, IF Len(text) < PhraseKeyLength THEN Len(text) ELSE PhraseKeyLength)

\* A promise already settled with a value, and the promise of job `id`.
ValueRef(v) == [kind |-> "value", value |-> v, id |-> 0]
JobRef(id)  == [kind |-> "job", value |-> <<>>, id |-> id]

\* worker.postMessage(...): a terminated worker drops the message.
PostMessage(wk, text) ==
    IF wk.alive THEN [wk EXCEPT !.inbox = Append(@, text)] ELSE wk

\* extractKeyPhrasesParallel(text), the worker chosen by getWorker() being w.
\* st holds the phrase cache, the pool, the jobs and the history; the result
\* adds the promise returned.
extractKeyPhrasesParallel(text, w, st) ==
    IF text = <<>> \/ ~IsString(text)
    THEN [st EXCEPT !.ref = ValueRef(<<>>)]
    ELSE LET cacheKey == PhraseKey(text)
         IN  IF MapHas(st.phrases, cacheKey)
             THEN [st EXCEPT !.ref = ValueRef(MapGet(st.phrases, cacheKey)),
                             !.log = Append(@, LogHit("phrase", st.phrases, cacheKey))]
             ELSE LET id == Len(st.jobs) + 1
                  IN  [st EXCEPT
                         !.ref = JobRef(id),
                         !.jobs = Append(@, [text |-> text, status |-> "pending",
                                             value |-> <<>>]),
                         !.workers[w] =
                             [PostMessage(@, text) EXCEPT !.listeners = Append(@, id)]]

\* Whether extractKeyPhrasesParallel(text) posts a job in state st.
Misses(text, phrases) ==
    text # <<>> /\ IsString(text) /\ ~MapHas(phrases, PhraseKey(text))

\* One once('message') listener runs with the phrases of the message received:
\* it stores them under the key of its own job and resolves its own promise.
RunListener(id, phrases, st) ==
    LET cacheKey == PhraseKey(st.jobs[id].text)
    IN  [st EXCEPT
           !.log = Append(@, LogStore("phrase", st.phrases, cacheKey, phrases)),
           !.phrases = CacheStore(@, cacheKey, phrases),
           !.jobs[id] = IF @.status = "pending"
                        THEN [@ EXCEPT !.status = "resolved", !.value = phrases]
                        ELSE @]

RECURSIVE RunListeners(_, _, _)
RunListeners(ids, phrases, st) ==
    IF ids = <<>> THEN st
    ELSE RunListeners(Tail(ids), phrases, RunListener(Head(ids), phrases, st))

\* A variant in which a reply runs the oldest listener only, the others being
\* removed with it.
OnWorkerMessageFirstListenerOnly(w, st) ==
    LET phrases == ExtractPhrases(Head(st.workers[w].inbox), CommonWords)
        ids     == st.workers[w].listeners
    IN  RunListeners(SubSeq(ids, 1, IF ids = <<>> THEN 0 ELSE 1), phrases,
            [st EXCEPT !.workers[w].inbox = Tail(@), !.workers[w].listeners = <<>>])

\* The worker answers the oldest message posted to it and the 'message' event
\* is emitted on the main thread: every listener registered on that worker
\* runs, and being registered with once() is removed.
OnWorkerMessage(w, st) ==
    LET phrases == ExtractPhrases(Head(st.workers[w].inbox), CommonWords)
        ids     == st.workers[w].listeners
    IN  RunListeners(ids, phrases,
            [st EXCEPT !.workers[w].inbox = Tail(@), !.workers[w].listeners = <<>>])

\* once('error', reject) of job id.
RejectJob(id, st) ==
    [st EXCEPT !.jobs[id] = IF @.status = "pending"
                            THEN [@ EXCEPT !.status = "rejected"] ELSE @]

RECURSIVE RejectJobs(_, _)
RejectJobs(ids, st) ==
    IF ids = <<>> THEN st ELSE RejectJobs(Tail(ids), RejectJob(Head(ids), st))

\* The worker thread dies with an uncaught error while it handles a message:
\* the 'error' event runs every reject registered on it.  The promises still
\* pending on the worker are those whose 'message' listener has not run; the
\* listeners stay registered on the dead worker.
OnWorkerError(w, st) ==
    RejectJobs(st.workers[w].listeners,
               [st EXCEPT !.workers[w].alive = FALSE, !.workers[w].inbox = <<>>])

\* 'Unable to generate summary at this time.'
FallbackText == <<"U", "n", "a", "b", "l", "e", " ", "t", "o", " ", "g", "e",
    "n", "e", "r", "a", "t", "e", " ", "s", "u", "m", "m", "a", "r", "y",
    " ", "a", "t", " ", "t", "h", "i", "s", " ", "t", "i", "m", "e", ".">>

\* 'Key themes: ' and 'Sources: '
KeyThemesLabel == <<"K", "e", "y", " ", "t", "h", "e", "m", "e", "s", ":",
    " ">>
SourcesLabel == <<"S", "o", "u", "r", "c", "e", "s", ":", " ">>

(***************************************************************************)
(* validateArticle, findCommonThemes and summarize.                        *)
(***************************************************************************)
\* An argument that is not an object.
NullArticle == [isNull |-> TRUE]

\* String.prototype.trim
Trim(s) ==
    LET keep == {i \in 1..Len(s) : ~IsSpace(s[i])}
    IN  IF keep = {} THEN <<>>
        ELSE SubSeq(s, KthSmallest(keep, 1), KthSmallest(keep, Cardinality(keep)))

\* value && typeof value === 'string' && value.trim().length > 0
IsFilled(value) == IsString(value) /\ value # <<>> /\ Trim(value) # <<>>

\* A variant that does not look at the source.
validateArticleWithoutSource(article) ==
    IF article = NullArticle THEN FALSE
    ELSE IsFilled(article.title) /\ IsFilled(article.snippet)

validateArticle(article) ==
    IF article = NullArticle THEN FALSE
    ELSE IsFilled(article.title) /\ IsFilled(article.snippet) /\ IsFilled(article.source)

\* Array.prototype.join
RECURSIVE Join(_, _)
Join(items, sep) ==
    IF items = <<>> THEN <<>>
    ELSE IF Len(items) = 1 THEN items[1]
    ELSE items[1] \o sep \o Join(Tail(items), sep)

\* A variant that takes every item.
TakeAll(items, n) == items

\* Array.prototype.slice(0, n)
Take(items, n) == SubSeq(items, 1, IF Len(items) < n THEN Len(items) ELSE n)

\* The positions of `items` at which a value occurs for the first time.
FirstOccurrences(items) ==
    {i \in 1..Len(items) : \A j \in 1..(i - 1) : items[j] # items[i]}

\* A variant that keeps every occurrence.
DistinctKeepingAll(items) == items

\* Array.from(new Set(items)): the distinct values in order of first occurrence.
Distinct(items) ==
    LET firsts == FirstOccurrences(items)
    IN  [k \in 1..Cardinality(firsts) |-> items[KthSmallest(firsts, k)]]

CountOf(items, x) == Cardinality({i \in 1..Len(items) : items[i] = x})

\* A variant without the sort: the repeated phrases in order of first
\* occurrence.
ThemesOfUnsorted(allPhrases) ==
    LET entries == {i \in FirstOccurrences(allPhrases) :
                        CountOf(allPhrases, allPhrases[i]) > 1}
    IN  [k \in 1..Cardinality(entries) |-> allPhrases[KthSmallest(entries, k)]]

\* The themes of a flattened phrase list: the entries of phraseCounts (one per
\* distinct phrase, in order of first occurrence) with a count above 1, sorted
\* by descending count (Array.prototype.sort is stable), phrases only.
ThemesOf(allPhrases) ==
    LET n       == Len(allPhrases)
        entries == {i \in FirstOccurrences(allPhrases) :
                        CountOf(allPhrases, allPhrases[i]) > 1}
        Rank(i)  == (n - CountOf(allPhrases, allPhrases[i])) * (n + 1) + i
        ranks   == {Rank(i) : i \in entries}
    IN  [k \in 1..Cardinality(entries) |->
            allPhrases[CHOOSE i \in entries : Rank(i) = KthSmallest(ranks, k)]]

\* The state of a promise returned by extractKeyPhrasesParallel.
RefStatus(ref, st) == IF ref.kind = "value" THEN "resolved" ELSE st.jobs[ref.id].status
RefValue(ref, st)  == IF ref.kind = "value" THEN ref.value ELSE st.jobs[ref.id].value

\* article.title + ' ' + article.snippet
ThemeText(article) == article.title \o <<" ">> \o article.snippet

\* phrasePromises gets the promise just returned.
RecordTheme(st) == [st EXCEPT !.call.themeRefs = Append(@, st.ref)]

\* findCommonThemes up to its await: one extractKeyPhrasesParallel call per
\* article, in order; route[i] is the worker getWorker() picks for article i.
RECURSIVE StartThemes(_, _, _)
StartThemes(i, route, st) ==
    IF i > Len(st.call.valid) THEN st
    ELSE StartThemes(i + 1, route,
             RecordTheme(extractKeyPhrasesParallel(ThemeText(st.call.valid[i]),
                                                   route[i], st)))

\* Promise.all(phrasePromises): rejected as soon as one promise is rejected,
\* fulfilled when all are.
ThemesStatus(st) ==
    LET refs == st.call.themeRefs
    IN  IF \E i \in 1..Len(refs) : RefStatus(refs[i], st) = "rejected" THEN "rejected"
        ELSE IF \A i \in 1..Len(refs) : RefStatus(refs[i], st) = "resolved" THEN "resolved"
        ELSE "pending"

\* What findCommonThemes returns: the themes, or [] from its catch.
ThemesResult(st) ==
    IF ThemesStatus(st) = "rejected" THEN <<>>
    ELSE LET refs == st.call.themeRefs
         IN  ThemesOf(Flatten([i \in 1..Len(refs) |-> RefValue(refs[i], st)]))

\* [.!?]
SentenceEndChars == {".", "!", "?"}

\* snippet.split(/[.!?]+/).map(s => s.trim()).filter(s => s.length > 0)
SplitSentences(snippet) ==
    LET pieces == SplitRuns(snippet, SentenceEndChars)
    IN  SelectSeq([i \in 1..Len(pieces) |-> Trim(pieces[i])], LAMBDA t : t # <<>>)

\* A task keeps its uniqueSentences and the promise of its keyPhrases.
RecordTask(st) ==
    [st EXCEPT !.call.taskRefs = Append(@, st.ref),
               !.call.taskSentences = Append(@, st.out)]

\* The per-article tasks up to their await, in order: the sentences of the
\* snippet, removeDuplicateInfo on them, then extractKeyPhrasesParallel on the
\* snippet.
RECURSIVE StartTasks(_, _, _)
StartTasks(i, route, st) ==
    IF i > Len(st.call.valid) THEN st
    ELSE StartTasks(i + 1, route,
             RecordTask(extractKeyPhrasesParallel(st.call.valid[i].snippet, route[i],
                 removeDuplicateInfo(SplitSentences(st.call.valid[i].snippet), st))))

\* A variant that is fulfilled as soon as one task has settled.
TasksSettledAny(st) ==
    \E i \in 1..Len(st.call.taskRefs) : RefStatus(st.call.taskRefs[i], st) # "pending"

\* Promise.all(processPromises): every task catches its own failure, so the
\* promise is fulfilled once every task has settled.
TasksSettled(st) ==
    \A i \in 1..Len(st.call.taskRefs) : RefStatus(st.call.taskRefs[i], st) # "pending"

\* A variant that keeps the tasks that returned null.
ProcessedUnfiltered(st) == [i \in 1..Len(st.call.taskRefs) |-> i]

\* The indexes of the tasks that returned a result, in article order.
Processed(st) ==
    SelectSeq([i \in 1..Len(st.call.taskRefs) |-> i],
              LAMBDA i : RefStatus(st.call.taskRefs[i], st) = "resolved")

ZeroConfidence == [num |-> 0, den |-> 1]

\* { ...this.fallbackSummary, error }
FallbackWithError(message) ==
    [summary |-> FallbackText, themes |-> <<>>, confidence |-> ZeroConfidence,
     error |-> message]

\* A variant with the operands of the division exchanged.
ConfidenceInverted(processed, valid) == [num |-> valid, den |-> processed]

\* results.length / validArticles.length
Confidence(processed, valid) == [num |-> processed, den |-> valid]

\* A variant with the threshold 0.3.
IsLowConfidenceBelowThird(confidence) == 10 * confidence.num < 3 * confidence.den

\* confidence < 0.5
IsLowConfidence(confidence) == 2 * confidence.num < confidence.den

\* The return of summarize when confidence < 0.5.
LowConfidenceResult(st) ==
    [st EXCEPT
       !.call.pc = "done",
       !.call.result =
           [summary |-> FallbackText, themes |-> <<>>,
            confidence |-> ZeroConfidence, partialData |-> TRUE,
            processedArticles |-> Len(Processed(st)),
            totalArticles |-> Len(st.call.valid)]]

\* A variant that takes the results from the last to the first.
AllSentencesLastFirst(st) ==
    Flatten([k \in 1..Len(Processed(st)) |->
                st.call.taskSentences[Processed(st)[Len(Processed(st)) + 1 - k]]])

\* allSentences = results.flatMap(r => r.sentences)
AllSentences(st) ==
    Flatten([k \in 1..Len(Processed(st)) |-> st.call.taskSentences[Processed(st)[k]]])

\* The summary assembled from the themes, the unique sentences (st.out) and
\* the sources, and the return of summarize.
Assemble(st) ==
    LET c          == st.call
        results    == Processed(st)
        themesLine == IF c.themes # <<>>
                      THEN <<KeyThemesLabel \o Join(Take(c.themes, 3), <<",", " ">>)
                               \o <<".">>>>
                      ELSE <<>>
        mainPoints == Join(Take(st.out, 3), <<".", " ">>)
        pointsLine == IF mainPoints # <<>> THEN <<mainPoints \o <<".">>>> ELSE <<>>
        sources    == Distinct([k \in 1..Len(results) |-> c.valid[results[k]].source])
        sourceLine == <<SourcesLabel \o Join(sources, <<",", " ">>)>>
    IN  [st EXCEPT
           !.call.pc = "done",
           !.call.result =
               [summary |-> Join(themesLine \o pointsLine \o sourceLine, <<"\n">>),
                themes |-> c.themes,
                confidence |-> Confidence(Len(results), Len(c.valid)),
                processedArticles |-> Len(results),
                totalArticles |-> Len(c.valid)]]

\* A variant without the try/catch of the tasks and of summarize: the failure
\* of a task's extraction job leaves summarize.
FinishRaising(st) ==
    IF Len(Processed(st)) < Len(st.call.valid)
    THEN [st EXCEPT !.call.pc = "done", !.call.settled = "rejected"]
    ELSE Assemble(removeDuplicateInfo(AllSentences(st), st))

\* summarize from the scoring on, all tasks having settled.
Finish(st) ==
    IF IsLowConfidence(Confidence(Len(Processed(st)), Len(st.call.valid)))
    THEN LowConfidenceResult(st)
    ELSE Assemble(removeDuplicateInfo(AllSentences(st), st))

\* The continuations of a summarize call that can run once the current event
\* handler has returned: after findCommonThemes has settled the tasks start,
\* and after every task has settled the result is built.
AfterThemes(st, route) ==
    IF st.call.pc = "themes" /\ ThemesStatus(st) # "pending"
    THEN StartTasks(1, route,
             [st EXCEPT !.call.pc = "tasks", !.call.themes = ThemesResult(st)])
    ELSE st

AfterTasks(st) ==
    IF st.call.pc = "tasks" /\ TasksSettled(st) THEN Finish(st) ELSE st

Continue(st, route) == AfterTasks(AfterThemes(st, route))

\* A variant that drops the invalid articles from the array it is given,
\* in place.
NewCallFilteringInPlace(input) ==
    [pc |-> "start",
     input |-> [input EXCEPT !.items = SelectSeq(@, validateArticle)],
     valid |-> <<>>, themeRefs |-> <<>>,
     themes |-> <<>>, taskRefs |-> <<>>, taskSentences |-> <<>>,
     settled |-> "fulfilled", result |-> [summary |-> <<>>]]

NewCall(input) ==
    [pc |-> "start", input |-> input, valid |-> <<>>, themeRefs |-> <<>>,
     themes |-> <<>>, taskRefs |-> <<>>, taskSentences |-> <<>>,
     settled |-> "fulfilled", result |-> [summary |-> <<>>]]

\* A variant of summarize without the return for an input with no valid
\* article.
summarizeUnguarded(input, themeRoute, st) ==
    IF input.type # "array"
    THEN [st EXCEPT !.call = [NewCall(input) EXCEPT
                                 !.pc = "done",
                                 !.result = FallbackWithError("Invalid articles input")]]
    ELSE StartThemes(1, themeRoute,
             [st EXCEPT !.call = [NewCall(input) EXCEPT
                                     !.pc = "themes",
                                     !.valid = SelectSeq(input.items, validateArticle)]])

\* summarize(articles) up to the await of findCommonThemes.  A
\* SummarizationError thrown for an argument that is not an array is caught by
\* the catch of summarize itself, which returns the fallback with the message.
summarize(input, themeRoute, st) ==
    LET c == NewCall(input)
    IN  IF input.type # "array"
        THEN [st EXCEPT !.call = [c EXCEPT !.pc = "done",
                                           !.result = FallbackWithError("Invalid articles input")]]
        ELSE LET validArticles == SelectSeq(input.items, validateArticle)
             IN  IF validArticles = <<>>
                 THEN [st EXCEPT !.call =
                          [c EXCEPT !.pc = "done",
                                    !.result = FallbackWithError("No valid articles available")]]
                 ELSE StartThemes(1, themeRoute,
                          [st EXCEPT !.call = [c EXCEPT !.pc = "themes",
                                                        !.valid = validArticles]])

\* The engine state the operations work on: the caches, the pool, the jobs,
\* the history of the current operation, the promise last returned by
\* extractKeyPhrasesParallel, the summarize call, and the values returned by
\* the operations on sentences.
EngineState ==
    [phrases |-> phraseCache, sims |-> similarityCache, workers |-> workers,
     jobs |-> jobs, log |-> <<>>, ref |-> ValueRef(<<>>), call |-> call,
     found |-> FALSE, kept |-> <<>>, out |-> <<>>]

(***************************************************************************)
(* Inputs of the direct calls.                                             *)
(***************************************************************************)
SentAbc    == <<"a", "b", "c">>
SentAbcD   == <<"a", "b", "c", ":", "d">>
SentAbcAbc == <<"a", "b", "c", ":", "a", "b", "c">>
SentD      == <<"d">>
SentCD     == <<"c", ":", "d">>

SentencePool == {SentAbc, SentAbcD, SentAbcAbc, SentD, SentCD, Null}

RECURSIVE SeqsUpTo(_, _)
SeqsUpTo(S, n) ==
    IF n = 0 THEN {<<>>}
    ELSE LET shorter == SeqsUpTo(S, n - 1)
         IN  shorter \cup {Append(s, x) : s \in {t \in shorter : Len(t) = n - 1}, x \in S}

\* Entries that fill all but the last place of the first chunk.
Padding == [i \in 1..(ChunkSize - 1) |-> Null]

\* The arrays handed to removeDuplicateInfo: the short ones, which fit in one
\* chunk, and behind the padding those without 'c:d', which spread over two
\* chunks.
ShortLists == SeqsUpTo(SentencePool, MaxSentences)

SentenceLists ==
    ShortLists \cup {Padding \o sentences :
                        sentences \in SeqsUpTo(SentencePool \ {SentCD}, MaxSentences)}

\* Texts handed to extractKeyPhrasesParallel by a direct call: two long texts
\* that agree on their first 100 characters, a short one, and the empty string.
LongPrefix == [i \in 1..PhraseKeyLength |-> "x"]
TextLongR  == LongPrefix \o <<" ", "p", " ", "q", " ", "r">>
TextLongS  == LongPrefix \o <<" ", "p", " ", "q", " ", "s">>
TextShort  == <<"M", "a", "x", " ", "w", "i", "n", "s", " ", "t", "h", "e", " ",
                "G", "P", "!">>

TextPool == {TextLongR, TextLongS, TextShort, <<>>}

\* Articles handed to summarize.
\* 'Ham wins' / 'Max 2nd. Ham wins GP.' / 'F1'
TitleHam == <<"H", "a", "m", " ", "w", "i", "n", "s">>
SnippetHam == <<"M", "a", "x", " ", "2", "n", "d", ".", " ", "H", "a", "m",
    " ", "w", "i", "n", "s", " ", "G", "P", ".">>
SourceF1 == <<"F", "1">>
ArticleHam == [title |-> TitleHam, snippet |-> SnippetHam, source |-> SourceF1]

\* 'GP' / 'Ham wins GP! Ham wins a GP.' / 'RT'
TitleGP == <<"G", "P">>
SnippetGP == <<"H", "a", "m", " ", "w", "i", "n", "s", " ", "G", "P", "!",
    " ", "H", "a", "m", " ", "w", "i", "n", "s", " ", "a", " ", "G", "P",
    ".">>
SourceRT == <<"R", "T">>
ArticleGP == [title |-> TitleGP, snippet |-> SnippetGP, source |-> SourceRT]

\* An article whose snippet is blank.
ArticleBlank == [title |-> TitleGP, snippet |-> <<" ">>, source |-> SourceF1]

ArticlePool == {ArticleHam, ArticleGP, ArticleBlank}

\* The arguments of summarize: arrays of articles, and values that are not
\* arrays.
SummarizeInputs ==
    {[type |-> "array", items |-> items] : items \in SeqsUpTo(ArticlePool, MaxArticles)}
    \cup {[type |-> t, items |-> <<>>] : t \in {"null", "undefined", "object", "string"}}

\* The workers getWorker() picks for the n articles of one call, by position;
\* the positions past n are not used and are set to the first worker.
Routes(n) == {route \in [1..MaxArticles -> Workers] : \A i \in 1..MaxArticles : i > n => route[i] = 1}

\* The number of per-article tasks that start when the call in state st goes
\* on: those of a call whose theme detection has just settled.
TasksToStart(st) ==
    IF st.call.pc = "themes" /\ ThemesStatus(st) # "pending" THEN Len(st.call.valid) ELSE 0

(***************************************************************************)
(* The engine after construction, and its changes of state.                *)
(***************************************************************************)
Init ==
    /\ similarityCache = <<>>
    /\ phraseCache = <<>>
    /\ workers = [w \in Workers |-> [alive |-> TRUE, inbox |-> <<>>, listeners |-> <<>>]]
    /\ jobs = <<>>
    /\ cacheLog = <<>>
    /\ ddPc = "idle"
    /\ ddIn = <<>>
    /\ ddOut = <<>>
    /\ exLast = [text |-> <<>>, ref |-> ValueRef(<<>>)]
    /\ call = [NewCall([type |-> "array", items |-> <<>>]) EXCEPT !.pc = "idle"]
    /\ call2 = [NewCall([type |-> "array", items |-> <<>>]) EXCEPT !.pc = "idle"]
    /\ nCalls = 0
    /\ articles = [type |-> "array", items |-> <<>>]
    /\ isProcessing = FALSE
    /\ retryCount = 0
    /\ retryTimers = 0
    /\ alerts = 0
    /\ updates = <<>>
    /\ nUpdates = 0
    /\ skips = 0
    /\ refreshTails = 0
    /\ dbArticles = 0
    /\ metadata = {}
    /\ responseCache = NoEntry
    /\ invalidated = 0
    /\ requests = <<>>

SetEngine(st) ==
    /\ similarityCache' = st.sims
    /\ phraseCache' = st.phrases
    /\ workers' = st.workers
    /\ jobs' = st.jobs
    /\ cacheLog' = st.log
    /\ call' = st.call

\* A worker answers a message and the main thread handles the 'message'
\* event; a summarize call that awaited the promises resolved goes on.
WorkerMessage(w) ==
    /\ workers[w].alive
    /\ workers[w].inbox # <<>>
    /\ LET st == OnWorkerMessage(w, EngineState)
       IN  \E route \in Routes(TasksToStart(st)) : SetEngine(Continue(st, route))
    /\ UNCHANGED <<schedVars, serverVars, dedupVars, exLast, call2, nCalls, articles>>

\* A worker thread fails and the main thread handles the 'error' event; a
\* summarize call that awaited the promises rejected goes on.
WorkerError(w) ==
    /\ workers[w].alive
    /\ workers[w].inbox # <<>>
    /\ LET st == OnWorkerError(w, EngineState)
       IN  \E route \in Routes(TasksToStart(st)) : SetEngine(Continue(st, route))
    /\ UNCHANGED <<schedVars, serverVars, dedupVars, exLast, call2, nCalls, articles>>

(***************************************************************************)
(* Direct calls of removeDuplicateInfo on an engine.                       *)
(***************************************************************************)
\* A caller invokes removeDuplicateInfo(sentences).
CallRemoveDuplicateInfo(sentences) ==
    /\ ddPc = "idle"
    /\ LET st == removeDuplicateInfo(sentences, EngineState)
       IN  /\ similarityCache' = st.sims
           /\ cacheLog' = st.log
           /\ ddOut' = st.out
    /\ ddIn' = sentences
    /\ ddPc' = "returned"
    /\ UNCHANGED <<schedVars, serverVars, phraseCache, workers, jobs, exLast, sumVars>>

\* The caller passes the array it was returned to removeDuplicateInfo again.
CallOnResult ==
    /\ ddPc = "returned"
    /\ LET st == removeDuplicateInfo(ddOut, EngineState)
       IN  /\ similarityCache' = st.sims
           /\ cacheLog' = st.log
           /\ ddOut' = st.out
    /\ ddIn' = ddOut
    /\ ddPc' = "returned"
    /\ UNCHANGED <<schedVars, serverVars, phraseCache, workers, jobs, exLast, sumVars>>

\* The caller drops the returned array; the engine keeps its cache.
DropResult ==
    /\ ddPc = "returned"
    /\ ddPc' = "idle"
    /\ ddIn' = <<>>
    /\ ddOut' = <<>>
    /\ cacheLog' = <<>>
    /\ UNCHANGED <<schedVars, serverVars, similarityCache, phraseCache, workers, jobs, exLast, sumVars>>

NextDedup ==
    \/ \E sentences \in SentenceLists : CallRemoveDuplicateInfo(sentences)
    \/ CallOnResult
    \/ DropResult

SpecDedup == Init /\ [][NextDedup]_vars

(***************************************************************************)
(* Direct calls of extractKeyPhrasesParallel on an engine.                 *)
(***************************************************************************)
\* A caller invokes extractKeyPhrasesParallel(text); on a cache miss getWorker()
\* picks worker w.
CallExtract(text, w) ==
    /\ Misses(text, phraseCache) => Len(jobs) < MaxJobs
    /\ LET st == extractKeyPhrasesParallel(text, w, EngineState)
       IN  /\ SetEngine(st)
           /\ exLast' = [text |-> text, ref |-> st.ref]
    /\ UNCHANGED <<schedVars, serverVars, dedupVars, call2, nCalls, articles>>

NextExtract ==
    \/ \E text \in TextPool, w \in Workers : CallExtract(text, w)
    \/ \E w \in Workers : WorkerMessage(w)
    \/ \E w \in Workers : WorkerError(w)

SpecExtract == Init /\ [][NextExtract]_vars

(***************************************************************************)
(* summarize calls on an engine.                                           *)
(***************************************************************************)
\* A caller invokes summarize(input); the routes are the workers getWorker()
\* picks during theme detection and during the per-article tasks.
CallSummarize(input, themeRoute) ==
    /\ call.pc \in {"idle", "done"}
    /\ nCalls < MaxCalls
    /\ LET st == summarize(input, themeRoute, EngineState)
       IN  \E taskRoute \in Routes(TasksToStart(st)) : SetEngine(Continue(st, taskRoute))
    /\ nCalls' = nCalls + 1
    /\ articles' = input
    /\ UNCHANGED <<schedVars, serverVars, dedupVars, exLast, call2>>

Next ==
    \/ \E input \in SummarizeInputs :
          \E themeRoute \in Routes(Len(SelectSeq(input.items, validateArticle))) :
              CallSummarize(input, themeRoute)
    \/ \E w \in Workers : WorkerMessage(w)
    \/ \E w \in Workers : WorkerError(w)

Spec == Init /\ [][Next]_vars

(***************************************************************************)
(* summarize calls on articles with many and with no sentences.            *)
(***************************************************************************)
\* 'Lec' / 'Lec 3rd. Sai out.' / 'F1'
ArticleLec ==
    [title |-> <<"L", "e", "c">>,
     snippet |-> <<"L", "e", "c", " ", "3", "r", "d", ".", " ", "S", "a", "i",
                   " ", "o", "u", "t", ".">>,
     source |-> SourceF1]

\* An article whose snippet holds no sentence: 'GP' / '?!' / 'RT'
ArticleMute == [title |-> TitleGP, snippet |-> <<"?", "!">>, source |-> SourceRT]

ComposeInputs ==
    {[type |-> "array", items |-> items] :
        items \in SeqsUpTo({ArticleHam, ArticleLec, ArticleMute}, MaxArticles)}

NextCompose ==
    \/ \E input \in ComposeInputs :
          \E themeRoute \in Routes(Len(SelectSeq(input.items, validateArticle))) :
              CallSummarize(input, themeRoute)
    \/ \E w \in Workers : WorkerMessage(w)
    \/ \E w \in Workers : WorkerError(w)

SpecCompose == Init /\ [][NextCompose]_vars

(***************************************************************************)
(* summarize calls on arrays with entries that are not articles.           *)
(***************************************************************************)
\* ArticleHam with its title between spaces, which is valid, and entries that
\* are not: null, a title that is not a string, a snippet of white space, an
\* empty source.
ArticlePadded   == [ArticleHam EXCEPT !.title = <<" ">> \o TitleHam \o <<" ">>]
ArticleNoTitle  == [ArticleHam EXCEPT !.title = Null]
ArticleTabs     == [ArticleHam EXCEPT !.snippet = <<"\t", "\n">>]
ArticleNoSource == [ArticleHam EXCEPT !.source = <<>>]

ValidateInputs ==
    {[type |-> "array", items |-> items] :
        items \in SeqsUpTo({ArticleHam, ArticlePadded, NullArticle, ArticleNoTitle,
                            ArticleTabs, ArticleNoSource}, MaxArticles)}

NextValidate ==
    \/ \E input \in ValidateInputs :
          \E themeRoute \in Routes(Len(SelectSeq(input.items, validateArticle))) :
              CallSummarize(input, themeRoute)
    \/ \E w \in Workers : WorkerMessage(w)
    \/ \E w \in Workers : WorkerError(w)

SpecValidate == Init /\ [][NextValidate]_vars

(***************************************************************************)
(* summarize calls on an engine that is torn down.                         *)
(***************************************************************************)
LogClear(name, m) ==
    [cache |-> name, op |-> "clear", key |-> <<>>, before |-> MapKeys(m), after |-> <<>>]

\* worker.terminate(): the thread stops and answers no message any more; no
\* 'error' event is emitted, so the promises pending on it stay pending.
Terminate(wk) == [wk EXCEPT !.alive = FALSE, !.inbox = <<>>]

\* A variant that leaves the similarity cache as it is.
cleanupKeepingSimilarities(st) ==
    [st EXCEPT !.workers = [w \in Workers |-> Terminate(st.workers[w])],
               !.phrases = <<>>,
               !.log = <<LogClear("phrase", st.phrases), LogClear("similarity", st.sims)>>]

\* cleanup()
cleanup(st) ==
    [st EXCEPT !.workers = [w \in Workers |-> Terminate(st.workers[w])],
               !.phrases = <<>>,
               !.sims = <<>>,
               !.log = <<LogClear("phrase", st.phrases), LogClear("similarity", st.sims)>>]

\* The owner of the engine tears it down, at any time.
CallCleanup ==
    /\ SetEngine(cleanup(EngineState))
    /\ UNCHANGED <<schedVars, serverVars, dedupVars, exLast, call2, nCalls, articles>>

NextTeardown ==
    \/ Next
    \/ CallCleanup

SpecTeardown == Init /\ [][NextTeardown]_vars

(***************************************************************************)
(* Two summarize calls in progress on one engine.                          *)
(***************************************************************************)
\* The engine state with both calls: `call` is the one the operators work on.
ConcurrentState ==
    [phrases |-> phraseCache, sims |-> similarityCache, workers |-> workers,
     jobs |-> jobs, log |-> <<>>, ref |-> ValueRef(<<>>), call |-> call,
     other |-> call2, found |-> FALSE, kept |-> <<>>, out |-> <<>>]

\* The same engine seen from the other call.
Swap(st) == [st EXCEPT !.call = st.other, !.other = st.call]

\* The last promise a call waits for during its tasks: the pending job made
\* last, 0 when it waits for none.
LastPending(c, st) ==
    LET ids == {c.taskRefs[i].id : i \in {k \in 1..Len(c.taskRefs) :
                   RefStatus(c.taskRefs[k], st) = "pending"}}
    IN  IF ids = {} THEN 0 ELSE CHOOSE id \in ids : \A other \in ids : other <= id

\* Whether, of two calls that one event lets go on, the second goes on before
\* the first.  The listeners of the event run in the order of registration
\* and the continuations run after them in the order they were queued: a
\* call that awaits its tasks (Promise.all at line 584) is queued through
\* fewer promise reactions than one that awaits findCommonThemes (lines
\* 449-458 and 561); of two calls awaiting their tasks the one whose last
\* pending promise was made first; of two calls awaiting their themes the
\* first, whose listeners were all registered before the second began.
\* `before` is the state when the event arrives.
SecondGoesOnFirst(before) ==
    \/ before.other.pc = "tasks" /\ before.call.pc = "themes"
    \/ /\ before.other.pc = "tasks" /\ before.call.pc = "tasks"
       /\ LastPending(before.other, before) < LastPending(before.call, before)

\* The continuations of both calls after an event.
ContinueBoth(st, before, route, route2) ==
    IF SecondGoesOnFirst(before)
    THEN Continue(Swap(Continue(Swap(st), route2)), route)
    ELSE Swap(Continue(Swap(Continue(st, route)), route2))

SetBoth(st) ==
    /\ SetEngine(st)
    /\ call2' = st.other

\* The arguments of the concurrent calls: arrays of at most one article.
ConcurrentInputs == {input \in SummarizeInputs : input.type = "array" /\ Len(input.items) <= 1}

\* A second caller invokes summarize(input) while the first call waits.
CallSecond(input, themeRoute) ==
    /\ call.pc \in {"themes", "tasks"}
    /\ call2.pc = "idle"
    /\ LET st == summarize(input, themeRoute, Swap(ConcurrentState))
       IN  \E taskRoute \in Routes(TasksToStart(st)) :
               SetBoth(Swap(Continue(st, taskRoute)))
    /\ UNCHANGED <<schedVars, serverVars, dedupVars, exLast, nCalls, articles>>

\* A worker answers a message while two calls may be waiting.
ConcurrentMessage(w) ==
    /\ workers[w].alive
    /\ workers[w].inbox # <<>>
    /\ LET st == OnWorkerMessage(w, ConcurrentState)
       IN  \E route \in Routes(TasksToStart(st)), route2 \in Routes(TasksToStart(Swap(st))) :
               SetBoth(ContinueBoth(st, ConcurrentState, route, route2))
    /\ UNCHANGED <<schedVars, serverVars, dedupVars, exLast, nCalls, articles>>

\* A worker thread fails while two calls may be waiting.
ConcurrentError(w) ==
    /\ workers[w].alive
    /\ workers[w].inbox # <<>>
    /\ LET st == OnWorkerError(w, ConcurrentState)
       IN  \E route \in Routes(TasksToStart(st)), route2 \in Routes(TasksToStart(Swap(st))) :
               SetBoth(ContinueBoth(st, ConcurrentState, route, route2))
    /\ UNCHANGED <<schedVars, serverVars, dedupVars, exLast, nCalls, articles>>

NextConcurrent ==
    \/ \E input \in ConcurrentInputs :
          \E themeRoute \in Routes(Len(SelectSeq(input.items, validateArticle))) :
              CallSummarize(input, themeRoute)
    \/ \E input \in ConcurrentInputs :
          \E themeRoute \in Routes(Len(SelectSeq(input.items, validateArticle))) :
              CallSecond(input, themeRoute)
    \/ \E w \in Workers : ConcurrentMessage(w)
    \/ \E w \in Workers : ConcurrentError(w)

SpecConcurrent == Init /\ [][NextConcurrent]_vars

(***************************************************************************)
(* Claims.                                                                 *)
(***************************************************************************)
\* The summarize call has returned.
Returned == call.pc = "done"

\* The number of per-article tasks of the call that succeeded: those whose
\* extraction promise was resolved.
TasksSucceeded ==
    Cardinality({i \in 1..Len(call.taskRefs) :
                    \/ call.taskRefs[i].kind = "value"
                    \/ jobs[call.taskRefs[i].id].status = "resolved"})

ValidCount == Len(call.valid)

HasField(r, f) == f \in DOMAIN r

\* C1: a summarize call with an argument that is not an array ends with its
\* promise rejected.
C1_NonArrayRejects ==
    (Returned /\ call.input.type # "array") => call.settled = "rejected"

\* C2: every promise of an extraction job that is resolved holds the phrases
\* of the text of that job, and every entry of the phrase cache holds the
\* phrases of a job text that has the entry's key.
C2_OwnResult ==
    /\ \A id \in 1..Len(jobs) :
          jobs[id].status = "resolved"
              => jobs[id].value = ExtractPhrases(jobs[id].text, CommonWords)
    /\ \A i \in 1..Len(phraseCache) :
          \E id \in 1..Len(jobs) :
              /\ PhraseKey(jobs[id].text) = phraseCache[i].key
              /\ phraseCache[i].value = ExtractPhrases(jobs[id].text, CommonWords)

\* C3: a direct call answered from the phrase cache returns the phrases that
\* the worker computes from the text of that call.
C3_HitIsFresh ==
    (exLast.text # <<>> /\ exLast.ref.kind = "value")
        => exLast.ref.value = ExtractPhrases(exLast.text, CommonWords)

\* C4 as stated: whenever summarize returns for an input with at least one
\* valid article, the confidence returned equals the number of tasks that
\* succeeded divided by the number of valid articles.
C4_ConfidenceIsRatio ==
    (Returned /\ ValidCount > 0)
        => call.result.confidence.num * ValidCount
               = TasksSucceeded * call.result.confidence.den

\* C4 amended: whenever summarize returns for an input with at least one
\* valid article, the confidence returned equals succeeded / valid if at least
\* half of the tasks succeeded, and is 0 if fewer than half succeeded.
C4_ConfidenceIsRatioOrZero ==
    (Returned /\ ValidCount > 0)
        => IF 2 * TasksSucceeded >= ValidCount
           THEN /\ call.result.confidence.den > 0
                /\ call.result.confidence.num * ValidCount
                       = TasksSucceeded * call.result.confidence.den
           ELSE call.result.confidence.num = 0

\* A call has returned with two of three tasks succeeded.
C4_Witness == Returned /\ ValidCount = 3 /\ TasksSucceeded = 2

\* C5: the confidence of every object summarize returns lies in [0, 1].
C5_ConfidenceInUnitInterval ==
    Returned
        => /\ call.result.confidence.den > 0
           /\ 0 <= call.result.confidence.num
           /\ call.result.confidence.num <= call.result.confidence.den

\* A call has returned a confidence strictly between 0 and 1.
C5_Witness ==
    /\ Returned
    /\ 0 < call.result.confidence.num
    /\ call.result.confidence.num < call.result.confidence.den

C7_FullSummaryNeedsHalf ==
    (Returned /\ ValidCount > 0)
        => IF 2 * TasksSucceeded < ValidCount
           THEN /\ call.result.summary = FallbackText
                /\ call.result.themes = <<>>
                /\ call.result.confidence.num = 0
                /\ HasField(call.result, "partialData")
                /\ call.result.partialData = TRUE
                /\ call.result.processedArticles = TasksSucceeded
                /\ call.result.totalArticles = ValidCount
           ELSE /\ ~HasField(call.result, "partialData")
                /\ call.result.summary # FallbackText

\* A call has returned with one of three tasks succeeded.
C7_Witness == Returned /\ ValidCount = 3 /\ TasksSucceeded = 1

\* C8: neither cache ever holds more entries than the capacity.
C8_CachesBounded ==
    /\ Len(phraseCache) <= MaxCacheSize
    /\ Len(similarityCache) <= MaxCacheSize

\* Both caches are full and the last operation stored a new key in a full
\* cache.
C8_Witness ==
    /\ Len(phraseCache) = MaxCacheSize
    /\ Len(similarityCache) = MaxCacheSize
    /\ \E i \in 1..Len(cacheLog) :
          /\ cacheLog[i].op = "set"
          /\ Len(cacheLog[i].before) = MaxCacheSize
          /\ ~\E j \in 1..MaxCacheSize : cacheLog[i].before[j] = cacheLog[i].key

\* The Map operations of the last operation on one of the caches, in order.
OpsOn(name) == SelectSeq(cacheLog, LAMBDA e : e.cache = name)

\* The keys in insertion order that first-in-first-out eviction leaves after
\* a Map operation.
FifoAfter(e) ==
    IF e.op = "get" \/ \E j \in 1..Len(e.before) : e.before[j] = e.key
    THEN e.before
    ELSE IF Len(e.before) = MaxCacheSize
    THEN Tail(e.before) \o <<e.key>>
    ELSE e.before \o <<e.key>>

FifoOps(ops, cache) ==
    /\ \A i \in 1..Len(ops) : ops[i].after = FifoAfter(ops[i])
    /\ \A i \in 1..(Len(ops) - 1) : ops[i + 1].before = ops[i].after
    /\ ops # <<>> => ops[Len(ops)].after = MapKeys(cache)

\* C9: storing a new key in a full cache removes exactly the entry inserted
\* first and appends the new one; a hit, and a store under a key already
\* present, leave the entries and their order as they were.
C9_FifoEviction ==
    /\ FifoOps(OpsOn("phrase"), phraseCache)
    /\ FifoOps(OpsOn("similarity"), similarityCache)

\* In the last operation a key was hit, and a later store of a new key in the
\* full cache evicted that key.
C9_Witness ==
    \E i, j \in 1..Len(cacheLog) :
        /\ i < j
        /\ cacheLog[i].cache = cacheLog[j].cache
        /\ cacheLog[i].op = "get"
        /\ cacheLog[j].op = "set"
        /\ Len(cacheLog[j].before) = MaxCacheSize
        /\ cacheLog[j].before[1] = cacheLog[i].key
        /\ cacheLog[j].after = Tail(cacheLog[j].before) \o <<cacheLog[j].key>>

\* a is b with some of its elements left out.
RECURSIVE IsSubsequence(_, _)
IsSubsequence(a, b) ==
    IF a = <<>> THEN TRUE
    ELSE IF b = <<>> THEN FALSE
    ELSE IF Head(a) = Head(b) THEN IsSubsequence(Tail(a), Tail(b))
    ELSE IsSubsequence(a, Tail(b))

\* C10: removeDuplicateInfo applied to the result of the previous
\* removeDuplicateInfo call returns that result unchanged.
C10_Idempotent == [][CallOnResult => ddOut' = ddOut]_vars

\* C11: the array removeDuplicateInfo returns is its argument with some
\* elements left out, the others being in the order of the argument.
C11_OutputIsSubsequence ==
    ddPc = "returned" => IsSubsequence(ddOut, ddIn)

\* A call on an array of two chunks has returned sentences of both chunks and
\* dropped one.
C11_Witness ==
    /\ ddPc = "returned"
    /\ Len(ddIn) = ChunkSize + 2
    /\ ddIn[ChunkSize] # ddIn[ChunkSize + 1]
    /\ ddOut = <<ddIn[ChunkSize], ddIn[ChunkSize + 1]>>

\* C12: no two sentences of the array removeDuplicateInfo returns are more
\* than 0.6 similar to each other.
C12_NoSimilarPairInOutput ==
    ddPc = "returned"
        => \A i, j \in 1..Len(ddOut) :
               i < j => ~AboveThreshold(compareTwoStrings(ddOut[j], ddOut[i]))

\* Theme detection of the call has returned its themes, no job having failed.
ThemesDetected ==
    /\ call.pc \in {"tasks", "done"}
    /\ ValidCount > 0
    /\ \A i \in 1..Len(call.themeRefs) :
          RefStatus(call.themeRefs[i], EngineState) = "resolved"

\* The phrases extracted for the i-th valid article during theme detection.
PhrasesOfArticle(i) == Range(RefValue(call.themeRefs[i], EngineState))

\* C13: the themes are exactly the phrases that occur in the phrase lists of
\* two different articles.
C13_ThemesAreSharedPhrases ==
    ThemesDetected
        => \A p \in Range(call.themes) \cup UNION {PhrasesOfArticle(i) : i \in 1..ValidCount} :
               p \in Range(call.themes)
                   <=> \E i, j \in 1..ValidCount :
                           i # j /\ p \in PhrasesOfArticle(i) /\ p \in PhrasesOfArticle(j)

\* The call has returned a full summary.
FullSummary ==
    /\ Returned
    /\ ValidCount > 0
    /\ ~HasField(call.result, "partialData")
    /\ ~HasField(call.result, "error")

\* Whether the task of the i-th valid article succeeded.
TaskSucceeded(i) ==
    \/ call.taskRefs[i].kind = "value"
    \/ jobs[call.taskRefs[i].id].status = "resolved"

\* The sources of the articles from the i-th valid one on whose task
\* succeeded, without those in `seen` and each once, in article order.
RECURSIVE SourcesFrom(_, _)
SourcesFrom(i, seen) ==
    IF i > ValidCount THEN <<>>
    ELSE IF TaskSucceeded(i) /\ call.valid[i].source \notin seen
    THEN <<call.valid[i].source>> \o SourcesFrom(i + 1, seen \cup {call.valid[i].source})
    ELSE SourcesFrom(i + 1, seen)

\* The items with ', ' between them.
RECURSIVE CommaSeparated(_)
CommaSeparated(items) ==
    IF items = <<>> THEN <<>>
    ELSE IF Len(items) = 1 THEN Head(items)
    ELSE Head(items) \o <<",", " ">> \o CommaSeparated(Tail(items))

ExpectedSourcesLine ==
    <<"S", "o", "u", "r", "c", "e", "s", ":", " ">> \o CommaSeparated(SourcesFrom(1, {}))

\* Whether `line` is the last line of `text`.
IsLastLine(line, text) ==
    /\ Len(text) >= Len(line)
    /\ SubSeq(text, Len(text) - Len(line) + 1, Len(text)) = line
    /\ Len(text) > Len(line) => text[Len(text) - Len(line)] = "\n"
    /\ \A k \in 1..Len(line) : line[k] # "\n"

\* C14: the last line of every full summary is 'Sources: ' followed by the
\* sources of the articles whose task succeeded, each once, in order of first
\* appearance, separated by ', '.
C14_SourcesLine ==
    FullSummary => IsLastLine(ExpectedSourcesLine, call.result.summary)

\* A full summary was returned for three articles of two sources; the task of
\* the only article of one source failed and the other source occurs twice.
C14_Witness ==
    /\ FullSummary
    /\ ValidCount = 3
    /\ TasksSucceeded = 2
    /\ Len(SourcesFrom(1, {})) = 1
    /\ \E i \in 1..ValidCount : ~TaskSucceeded(i) /\ call.valid[i].source # SourcesFrom(1, {})[1]

\* The sentences of the snippets of the articles whose task succeeded, from
\* the i-th valid article on, in article order and in snippet order.
RECURSIVE SentencesFrom(_)
SentencesFrom(i) ==
    IF i > ValidCount THEN <<>>
    ELSE (IF TaskSucceeded(i) THEN SplitSentences(call.valid[i].snippet) ELSE <<>>)
         \o SentencesFrom(i + 1)

\* The items with '. ' between them.
RECURSIVE PeriodSeparated(_)
PeriodSeparated(items) ==
    IF items = <<>> THEN <<>>
    ELSE IF Len(items) = 1 THEN Head(items)
    ELSE Head(items) \o <<".", " ">> \o PeriodSeparated(Tail(items))

\* The lines of the summary returned between the line of the themes, if
\* there is one, and the line of the sources.
PointsLines ==
    LET lines == SplitRuns(call.result.summary, {"\n"})
        first == IF call.result.themes # <<>> THEN 2 ELSE 1
    IN  SubSeq(lines, first, Len(lines) - 1)

\* Whether `line` gives up to three of `sentences`, in their order.
IsOrderedSelection(line, sentences) ==
    \E S \in SUBSET (1..Len(sentences)) :
        /\ Cardinality(S) \in 1..3
        /\ line = PeriodSeparated([k \in 1..Cardinality(S) |->
                                      sentences[KthSmallest(S, k)]]) \o <<".">>

\* C15: the main points of a full summary are sentences of the processed
\* articles in the order of the articles in the input, and within an article
\* in the order of its snippet.
C15_MainPointsInArticleOrder ==
    FullSummary
        => /\ Len(PointsLines) <= 1
           /\ Len(PointsLines) = 1 => IsOrderedSelection(PointsLines[1], SentencesFrom(1))

\* A full summary with main points was returned for two different articles,
\* the job of the second article having been answered before the job of the
\* first.
C15_Witness ==
    /\ FullSummary
    /\ ValidCount = 2
    /\ TasksSucceeded = 2
    /\ call.valid[1] # call.valid[2]
    /\ MapKeys(phraseCache)
           = <<PhraseKey(call.valid[2].snippet), PhraseKey(call.valid[1].snippet)>>
    /\ Len(PointsLines) = 1

\* C16: a failure of a worker on a job rejects the promise of that job only,
\* so there are never more rejected promises than failures.
C16_OnlyFailedJobRejected ==
    Cardinality({id \in 1..Len(jobs) : jobs[id].status = "rejected"})
        <= Cardinality({w \in Workers : ~workers[w].alive})

\* C17: when summarize returns, the articles counted as processed are those
\* whose task did not throw, and the articles dropped are at most those whose
\* job failed, one for each failure of a worker.
C17_OnlyThrowingTaskDropped ==
    (Returned /\ ValidCount > 0)
        => /\ call.result.processedArticles = TasksSucceeded
           /\ ValidCount - TasksSucceeded
                  <= Cardinality({w \in Workers : ~workers[w].alive})

\* The phrases found in the lists of two different articles, counting only the
\* articles whose theme job has resolved.
ResolvedPhrases(i) ==
    IF RefStatus(call.themeRefs[i], EngineState) = "resolved"
    THEN PhrasesOfArticle(i)
    ELSE {}

SharedByResolved ==
    {p \in UNION {ResolvedPhrases(i) : i \in 1..Len(call.themeRefs)} :
        \E i, j \in 1..Len(call.themeRefs) :
            i # j /\ p \in ResolvedPhrases(i) /\ p \in ResolvedPhrases(j)}

\* C18: at the step where theme detection ends, every phrase shared by two
\* articles whose extraction job succeeded is among the themes, also when the
\* job of another article has failed.
C18_ThemesSurviveFailedJob ==
    [][(call.pc = "themes" /\ call'.pc # "themes")
           => SharedByResolved' \subseteq Range(call'.themes)]_vars

\* The fallback object, with its optional fields, and the summary object.
IsFallback(r) ==
    /\ r.summary = FallbackText
    /\ r.themes = <<>>
    /\ r.confidence = ZeroConfidence
    /\ DOMAIN r \in {{"summary", "themes", "confidence", "error"},
                     {"summary", "themes", "confidence", "partialData",
                      "processedArticles", "totalArticles"}}

IsSummary(r) ==
    /\ DOMAIN r = {"summary", "themes", "confidence", "processedArticles", "totalArticles"}
    /\ r.summary # FallbackText
    /\ ~IsLowConfidence(r.confidence)

\* C19: a summarize call of an array that has returned was fulfilled, never
\* rejected, with a summary object or a fallback object, whatever articles of
\* the array are invalid and whatever extraction jobs have failed.
C19_ArrayCallNeverRaises ==
    (Returned /\ call.input.type = "array")
        => /\ call.settled = "fulfilled"
           /\ IsFallback(call.result) \/ IsSummary(call.result)

\* A call of an array with an invalid article has returned a summary after
\* the extraction job of one of its tasks failed.
C19_Witness ==
    /\ Returned
    /\ call.input.type = "array"
    /\ ValidCount < Len(call.input.items)
    /\ TasksSucceeded < ValidCount
    /\ IsSummary(call.result)

\* A fresh engine, and the only worker a lone call is routed to below.
FreshState ==
    [phrases |-> <<>>, sims |-> <<>>,
     workers |-> [w \in Workers |-> [alive |-> TRUE, inbox |-> <<>>, listeners |-> <<>>]],
     jobs |-> <<>>, log |-> <<>>, ref |-> ValueRef(<<>>),
     call |-> [NewCall([type |-> "array", items |-> <<>>]) EXCEPT !.pc = "idle"],
     found |-> FALSE, kept |-> <<>>, out |-> <<>>]

FirstWorker == [i \in 1..MaxArticles |-> 1]

\* A call runs to its end with no other call and no failure, the worker
\* answering its messages one after the other.
RECURSIVE RunAlone(_)
RunAlone(st) ==
    IF st.call.pc = "done" THEN st.call.result
    ELSE RunAlone(Continue(OnWorkerMessage(1, st), FirstWorker))

\* What summarize(input) returns alone on a fresh engine; for an array of at
\* most one article the result does not depend on the workers picked.
AloneResult(input) ==
    RunAlone(Continue(summarize(input, FirstWorker, FreshState), FirstWorker))

SameContent(result, alone) ==
    /\ result.summary = alone.summary
    /\ result.themes = alone.themes
    /\ result.confidence = alone.confidence

\* C20: of two summarize calls in progress together on one engine, each, if
\* no worker has failed, returns the summary text, the themes and the
\* confidence it returns alone on a fresh engine.
C20_ConcurrentCallsAsAlone ==
    (call2.pc # "idle" /\ \A w \in Workers : workers[w].alive)
        => /\ call.pc = "done" => SameContent(call.result, AloneResult(call.input))
           /\ call2.pc = "done" => SameContent(call2.result, AloneResult(call2.input))

\* C21: with no worker failing, the summary text, the themes and the
\* confidence a summarize call returns are those it returns when every
\* extraction job is routed to one and the same worker, whichever workers
\* getWorker() has picked.
C21_RoutingDoesNotMatter ==
    (Returned /\ call.input.type = "array" /\ \A w \in Workers : workers[w].alive)
        => SameContent(call.result, AloneResult(call.input))

\* C22: from its call to its return, on every path, the array summarize was
\* given holds the articles the caller passed, each with the fields it had,
\* and the array theme detection received holds the valid ones among them.
C22_InputNotModified ==
    /\ call.input = articles
    /\ call.pc \in {"themes", "tasks"}
           => call.valid = SelectSeq(articles.items, validateArticle)
    /\ (Returned /\ ValidCount > 0)
           => call.valid = SelectSeq(articles.items, validateArticle)

\* A call given valid and invalid articles has returned a full summary.
C22_Witness ==
    /\ FullSummary
    /\ 0 < ValidCount
    /\ ValidCount < Len(articles.items)
    /\ TasksSucceeded = ValidCount

\* The last operation on the engine was cleanup.
CleanedUp == cacheLog # <<>> /\ cacheLog[1].op = "clear"

\* C23: when cleanup has returned, no worker of the pool runs any more and
\* the phrase cache and the similarity cache are both empty.
C23_CleanupReleasesAll ==
    CleanedUp
        => /\ \A w \in Workers : ~workers[w].alive /\ workers[w].inbox = <<>>
           /\ phraseCache = <<>>
           /\ similarityCache = <<>>

\* cleanup has run on an engine whose caches both held entries, while a call
\* was waiting.
C23_Witness ==
    /\ CleanedUp
    /\ cacheLog[1].before # <<>>
    /\ cacheLog[2].before # <<>>
    /\ call.pc = "tasks"

\* The reference pass: from left to right, an entry that is not a non-empty
\* string is skipped, and a sentence is kept unless its similarity to a
\* sentence already kept is above the threshold.
RECURSIVE GreedyPass(_, _, _)
GreedyPass(sentences, i, kept) ==
    IF i > Len(sentences) THEN kept
    ELSE IF ~IsString(sentences[i]) \/ sentences[i] = <<>>
    THEN GreedyPass(sentences, i + 1, kept)
    ELSE IF \E k \in 1..Len(kept) :
                AboveThreshold(compareTwoStrings(sentences[i], kept[k]))
    THEN GreedyPass(sentences, i + 1, kept)
    ELSE GreedyPass(sentences, i + 1, Append(kept, sentences[i]))

\* C24: removeDuplicateInfo returns what the reference greedy pass returns on
\* the same array.
C24_IsGreedyPass ==
    (ddPc = "returned" /\ cacheLog # <<>> /\ cacheLog[1].before = <<>>)
        => ddOut = GreedyPass(ddIn, 1, <<>>)

\* The array behind n entries that are not sentences: the filter skips them,
\* and the batch boundaries fall n places earlier in the array.
Shifted(sentences, n) == [i \in 1..n |-> Null] \o sentences

\* C25: on an empty cache, an array that fits in one batch gives the same
\* result wherever the batch boundaries are made to fall inside it.
C25_BatchingDoesNotMatter ==
    (ddPc = "returned" /\ Len(ddIn) <= MaxSentences
        /\ cacheLog # <<>> /\ cacheLog[1].before = <<>>)
        => \A n \in 0..(ChunkSize - 1) :
               removeDuplicateInfo(Shifted(ddIn, n), FreshState).out = ddOut

\* C26: a comparison that fails, the earlier entry of the batch not being a
\* string, counts as not similar and nothing else changes: the array gives
\* the result it gives without its entries that are not strings.
C26_FailedComparisonIsNotSimilar ==
    (ddPc = "returned" /\ Len(ddIn) <= MaxSentences
        /\ (cacheLog = <<>> \/ cacheLog[1].before = <<>>))
        => ddOut = removeDuplicateInfo(SelectSeq(ddIn, IsString), FreshState).out

\* A sentence behind an entry that is not a string was kept, and the sentence
\* after it was compared with it and dropped.
C26_Witness ==
    /\ ddPc = "returned"
    /\ Len(ddIn) = 3
    /\ ddIn[1] = Null
    /\ IsString(ddIn[2])
    /\ IsString(ddIn[3]) /\ ddIn[3] # <<>>
    /\ ddOut = <<ddIn[2]>>
    /\ cacheLog # <<>> /\ cacheLog[1].before = <<>>

\* The phrase lists the theme jobs resolved with, flattened in the order of
\* the articles.
ThemeStream ==
    Flatten([i \in 1..Len(call.themeRefs) |-> RefValue(call.themeRefs[i], EngineState)])

\* Theme a is ranked before theme b: it occurs more often in the stream, or
\* as often and first.
RankedBefore(a, b) ==
    \/ CountOf(ThemeStream, a) > CountOf(ThemeStream, b)
    \/ /\ CountOf(ThemeStream, a) = CountOf(ThemeStream, b)
       /\ IndexOf(ThemeStream, a) < IndexOf(ThemeStream, b)

\* C27: the themes detected are in order of descending count in the phrase
\* stream, those of equal count in order of first occurrence in the stream,
\* whatever the order in which the jobs were answered.
C27_ThemesRanked ==
    ThemesDetected
        => \A k \in 1..(Len(call.themes) - 1) :
               RankedBefore(call.themes[k], call.themes[k + 1])

\* The theme job of the second article was answered before that of the
\* first, and the first theme occurs later in the stream than the second.
C27_Witness ==
    /\ ThemesDetected
    /\ call.pc = "tasks"
    /\ ValidCount = 2
    /\ MapKeys(phraseCache) = <<PhraseKey(ThemeText(call.valid[2])),
                                 PhraseKey(ThemeText(call.valid[1]))>>
    /\ Len(call.themes) >= 2
    /\ IndexOf(ThemeStream, call.themes[1]) > IndexOf(ThemeStream, call.themes[2])

\* C28: once theme detection has returned, none of the promises of its
\* extraction jobs is pending.
C28_ThemesWaitForAllJobs ==
    (call.pc \in {"tasks", "done"} /\ ValidCount > 0)
        => \A i \in 1..Len(call.themeRefs) :
               RefStatus(call.themeRefs[i], EngineState) # "pending"

\* None of the promises of the per-article tasks is pending.
NoTaskPending ==
    \A i \in 1..Len(call.taskRefs) :
        RefStatus(call.taskRefs[i], EngineState) # "pending"

\* Theme detection has returned: a promise of its jobs is rejected, or all
\* are resolved.
ThemesReturned ==
    \/ \E i \in 1..Len(call.themeRefs) :
           RefStatus(call.themeRefs[i], EngineState) = "rejected"
    \/ \A i \in 1..Len(call.themeRefs) :
           RefStatus(call.themeRefs[i], EngineState) = "resolved"

\* C29: a summarize call goes through its phases in order.  While theme
\* detection runs no task has started; the tasks, one for each valid article,
\* exist only once theme detection has returned; the result is built only
\* when every task has settled, and it is either a summary or the fallback
\* object, never both.
C29_PhasesInOrder ==
    /\ call.pc = "themes"
           => /\ call.taskRefs = <<>>
              /\ ~ThemesReturned
              /\ call.result = [summary |-> <<>>]
    /\ call.pc = "tasks"
           => /\ ThemesReturned
              /\ Len(call.taskRefs) = ValidCount
              /\ ~NoTaskPending
              /\ call.result = [summary |-> <<>>]
    /\ (Returned /\ ValidCount > 0)
           => /\ ThemesReturned
              /\ Len(call.taskRefs) = ValidCount
              /\ NoTaskPending
              /\ IsSummary(call.result) # IsFallback(call.result)
    /\ (Returned /\ ValidCount = 0)
           => call.taskRefs = <<>> /\ call.themeRefs = <<>> /\ IsFallback(call.result)

\* A call on two articles has returned a summary with themes after one of
\* its two tasks failed.
C29_Witness ==
    /\ Returned
    /\ ValidCount = 2
    /\ TasksSucceeded = 1
    /\ IsSummary(call.result)
    /\ call.themes # <<>>

\* The sentences that survive the dedup across the processed articles.  No
\* sentence of the articles holds a ':', so that the entries of the
\* similarity cache cannot change the result.
Survivors == removeDuplicateInfo(AllSentences(EngineState), FreshState).out

\* The first three items, or all when there are fewer.
FirstThree(items) == [k \in 1..(IF Len(items) < 3 THEN Len(items) ELSE 3) |-> items[k]]

ExpectedThemesLines ==
    IF call.result.themes = <<>> THEN <<>>
    ELSE <<KeyThemesLabel \o CommaSeparated(FirstThree(call.result.themes)) \o <<".">>>>

ExpectedPointsLines ==
    IF Survivors = <<>> THEN <<>>
    ELSE <<PeriodSeparated(FirstThree(Survivors)) \o <<".">>>>

\* The lines with a line break between them.
RECURSIVE LinesJoined(_)
LinesJoined(lines) ==
    IF lines = <<>> THEN <<>>
    ELSE IF Len(lines) = 1 THEN Head(lines)
    ELSE Head(lines) \o <<"\n">> \o LinesJoined(Tail(lines))

\* C30: the text of a full summary is made of the line of the themes, there
\* exactly when there are themes and giving the first three of them, the line
\* of the main points, there exactly when a sentence survives and giving the
\* first three survivors, and the line of the sources, in this order with a
\* line break between them.
C30_SummaryText ==
    FullSummary
        => call.result.summary =
               LinesJoined(ExpectedThemesLines \o ExpectedPointsLines
                               \o <<ExpectedSourcesLine>>)

\* A full summary with more than three themes and more than three surviving
\* sentences.
C30_Witness ==
    /\ FullSummary
    /\ Len(call.result.themes) > 3
    /\ Len(Survivors) > 3

\* A full summary without themes and without a surviving sentence.
C30_WitnessSourcesOnly ==
    /\ FullSummary
    /\ call.result.themes = <<>>
    /\ Survivors = <<>>

\* A field that is a string with a character that is not white space.
IsPresentText(value) ==
    value # Null /\ \E k \in 1..Len(value) : value[k] \notin {" ", "\t", "\n"}

\* The validity rule: an article with its three fields present.
IsValidArticle(article) ==
    IF article = NullArticle THEN FALSE
    ELSE /\ IsPresentText(article.title)
         /\ IsPresentText(article.snippet)
         /\ IsPresentText(article.source)

ValidGiven == SelectSeq(articles.items, IsValidArticle)

\* C31: the articles summarize works on are exactly the entries of the array
\* with title, snippet and source present, in their order: one theme job and
\* one task for each of them and none for the others, which are counted
\* neither in totalArticles nor in processedArticles and give no source.
C31_ValidArticlesOnly ==
    (call.pc # "idle" /\ call.input.type = "array")
        => /\ call.valid = ValidGiven
           /\ Len(call.themeRefs) = Len(ValidGiven)
           /\ \A i \in 1..Len(call.themeRefs) :
                  call.themeRefs[i].kind = "job"
                      => jobs[call.themeRefs[i].id].text = ThemeText(ValidGiven[i])
           /\ call.pc \in {"tasks", "done"} => Len(call.taskRefs) = Len(ValidGiven)
           /\ (Returned /\ ValidGiven = <<>>) => HasField(call.result, "error")
           /\ (Returned /\ HasField(call.result, "totalArticles"))
                  => /\ call.result.totalArticles = Len(ValidGiven)
                     /\ call.result.processedArticles <= Len(ValidGiven)
           /\ FullSummary => IsLastLine(ExpectedSourcesLine, call.result.summary)

\* A summary was returned for an array of one valid article between two
\* entries that are not valid.
C31_Witness ==
    /\ FullSummary
    /\ Len(articles.items) = 3
    /\ ~IsValidArticle(articles.items[1])
    /\ IsValidArticle(articles.items[2])
    /\ ~IsValidArticle(articles.items[3])
    /\ articles.items[1] # articles.items[3]
    /\ call.result.totalArticles = 1

\* The tokens of a text: its maximal runs of letters, digits and '_' between
\* white space, in lower case, the characters that are neither dropped; `word`
\* is the run being read and `done` the tokens read so far.
RECURSIVE TokensFrom(_, _, _, _)
TokensFrom(text, i, word, done) ==
    IF i > Len(text)
    THEN IF word = <<>> THEN done ELSE Append(done, word)
    ELSE IF text[i] \in {" ", "\t", "\n"}
    THEN TokensFrom(text, i + 1, <<>>, IF word = <<>> THEN done ELSE Append(done, word))
    ELSE IF IsWordChar(text[i])
    THEN TokensFrom(text, i + 1, Append(word, ToLowerChar(text[i])), done)
    ELSE TokensFrom(text, i + 1, word, done)

\* The tokens that are not stopwords.
KeptTokens(text) ==
    SelectSeq(TokensFrom(text, 1, <<>>, <<>>), LAMBDA word : word \notin CommonWords)

\* One phrase for each window of three tokens.
WindowPhrases(tokens) ==
    [i \in 1..(Len(tokens) - 2) |->
        tokens[i] \o <<" ">> \o tokens[i + 1] \o <<" ">> \o tokens[i + 2]]

\* C32: for the text of every job, the worker's answer is the list of the
\* windows of three tokens over the tokens of the text that are not
\* stopwords, in order: none when fewer than three tokens remain.
C32_PhrasesAreTokenWindows ==
    \A id \in 1..Len(jobs) :
        ExtractPhrases(jobs[id].text, CommonWords) = WindowPhrases(KeptTokens(jobs[id].text))

\* C33: a lookup of the similarity cache for the pair (sentence, other) hits
\* only an entry stored for that pair: the value a hit finds is the
\* similarity of the pair that is looked up.
C33_HitIsForTheSamePair ==
    ddPc = "returned"
        => \A n \in 1..Len(cacheLog) :
               (cacheLog[n].cache = "similarity" /\ cacheLog[n].op = "get")
                   => \A i, j \in 1..Len(ddIn) :
                          ( /\ j < i
                            /\ IsString(ddIn[i]) /\ IsString(ddIn[j])
                            /\ SimilarityKey(ddIn[i], ddIn[j]) = cacheLog[n].key
                            /\ MapHas(similarityCache, cacheLog[n].key) )
                              => MapGet(similarityCache, cacheLog[n].key)
                                     = compareTwoStrings(ddIn[i], ddIn[j])

(***************************************************************************)
(* summarize calls on an engine whose workers answer every message and     *)
(* never fail.                                                             *)
(***************************************************************************)
\* The worker thread has a message to answer.
HasMessage(w) == workers[w].alive /\ workers[w].inbox # <<>>

NextAnswered ==
    \/ \E input \in SummarizeInputs :
          \E themeRoute \in Routes(Len(SelectSeq(input.items, validateArticle))) :
              CallSummarize(input, themeRoute)
    \/ \E w \in Workers : WorkerMessage(w)

\* Every worker goes on answering as long as it has a message: weak fairness
\* of WorkerMessage(w), its enabling condition being HasMessage(w).
EveryJobAnswered ==
    \A w \in Workers : []<>(~HasMessage(w)) \/ []<><<WorkerMessage(w)>>_vars

SpecAnswered == Init /\ [][NextAnswered]_vars /\ EveryJobAnswered

\* C34: when every worker answers every message posted to it and no worker
\* fails, a summarize call that waits for its jobs eventually returns, with a
\* summary object or a fallback object.
C34_AnsweredCallReturns ==
    (call.pc \in {"themes", "tasks"})
        ~> ( /\ call.pc = "done"
             /\ call.settled = "fulfilled"
             /\ IsFallback(call.result) \/ IsSummary(call.result) )

\* A call of three articles, two of whose jobs went to one worker, has
\* returned a summary after its jobs were answered.
C34_Witness ==
    /\ call.pc = "done"
    /\ IsSummary(call.result)
    /\ Len(call.valid) = MaxArticles
    /\ \A id \in 1..Len(jobs) : jobs[id].status = "resolved"
    /\ \A w \in Workers : workers[w].alive /\ workers[w].inbox = <<>>

(***************************************************************************)
(* The scheduler (class NewsScheduler) and the summary routes of the       *)
(* server.  The scheduler and the routes share the response cache and the  *)
(* database.  Every await of processUpdate and of the handlers is a place  *)
(* where other handlers can run.                                           *)
(***************************************************************************)
summarizerVars == <<engineVars, dedupVars, exLast, sumVars>>

\* this.maxRetries
maxRetries == 3

MaxUpdates == 6
MaxServerUpdates == 2
MaxRequests == 2

\* The callers of processUpdate: start() and the hourly job, a retry timer,
\* and the handler of POST /api/refresh.
Origins == {"hourly", "timer", "refresh"}

\* A variant without the test of isProcessing.
SkipsNever(processing) == FALSE

\* if (this.isProcessing) return
Skips(processing) == processing

\* A variant that compares with <=.
CanRetryInclusive(count) == count <= maxRetries

\* this.retryCount < this.maxRetries
CanRetry(count) == count < maxRetries

\* The bodies in progress other than the i-th.
Without(i) == SubSeq(updates, 1, i - 1) \o SubSeq(updates, i + 1, Len(updates))

\* finally { this.isProcessing = false }, and the promise of processUpdate
\* settles: a refresh handler that awaited it goes on when it is fulfilled.
Finally(i, fulfilled) ==
    /\ isProcessing' = FALSE
    /\ updates' = Without(i)
    /\ refreshTails' = IF updates[i].origin = "refresh" /\ fulfilled
                       THEN refreshTails + 1 ELSE refreshTails

\* The catch block of processUpdate up to its first await.
Catch(i) ==
    IF CanRetry(retryCount)
    THEN /\ retryCount' = retryCount + 1
         /\ retryTimers' = retryTimers + 1
         /\ alerts' = alerts
         /\ Finally(i, TRUE)
    ELSE /\ alerts' = alerts + 1
         /\ updates' = [updates EXCEPT ![i].pc = "alerting"]
         /\ UNCHANGED <<isProcessing, retryCount, retryTimers, refreshTails>>

\* processUpdate() is called, up to its first await.
Invoke(origin) ==
    /\ nUpdates < MaxUpdates
    /\ origin = "timer" => retryTimers > 0
    /\ nUpdates' = nUpdates + 1
    /\ retryTimers' = IF origin = "timer" THEN retryTimers - 1 ELSE retryTimers
    /\ IF Skips(isProcessing)
       THEN /\ skips' = skips + 1
            /\ refreshTails' = IF origin = "refresh" THEN refreshTails + 1 ELSE refreshTails
            /\ UNCHANGED <<isProcessing, updates>>
       ELSE /\ isProcessing' = TRUE
            /\ updates' = Append(updates, [origin |-> origin, pc |-> "scraping"])
            /\ UNCHANGED <<skips, refreshTails>>
    /\ UNCHANGED <<retryCount, alerts, serverVars, summarizerVars>>

\* await scrapeF1News() settles.
ScrapeReturns(i, ok) ==
    /\ updates[i].pc = "scraping"
    /\ IF ok
       THEN /\ updates' = [updates EXCEPT ![i].pc = "saving"]
            /\ UNCHANGED <<isProcessing, retryCount, retryTimers, alerts, refreshTails>>
       ELSE Catch(i)
    /\ UNCHANGED <<nUpdates, skips, serverVars, summarizerVars>>

\* saveArticles: the inserts of the articles have run; a failure can leave
\* some of them written.
ArticlesSaved(i, ok, written) ==
    /\ updates[i].pc = "saving"
    /\ dbArticles' = IF ok \/ written THEN dbArticles + 1 ELSE dbArticles
    /\ IF ok
       THEN /\ updates' = [updates EXCEPT ![i].pc = "stamping"]
            /\ UNCHANGED <<isProcessing, retryCount, retryTimers, alerts, refreshTails>>
       ELSE Catch(i)
    /\ UNCHANGED <<nUpdates, skips, metadata, responseCache, invalidated, requests,
                   summarizerVars>>

\* saveArticles: INSERT OR REPLACE of 'last_fetch' settles and, when it
\* succeeds, processUpdate goes on to its next await: it deletes the cache
\* keys, resets retryCount and starts the insert of 'last_update_duration'.
Stamped(i, ok) ==
    /\ updates[i].pc = "stamping"
    /\ IF ok
       THEN /\ metadata' = metadata \cup {"last_fetch"}
            /\ responseCache' = NoEntry
            /\ invalidated' = dbArticles
            /\ retryCount' = 0
            /\ updates' = [updates EXCEPT ![i].pc = "recording"]
            /\ UNCHANGED <<isProcessing, retryTimers, alerts, refreshTails>>
       ELSE /\ Catch(i)
            /\ UNCHANGED <<metadata, responseCache, invalidated>>
    /\ UNCHANGED <<nUpdates, skips, dbArticles, requests, summarizerVars>>

\* INSERT INTO metadata ... 'last_update_duration' settles: key is the
\* primary key of the table, so the insert fails when the row exists.
Recorded(i) ==
    /\ updates[i].pc = "recording"
    /\ IF "last_update_duration" \in metadata
       THEN /\ Catch(i)
            /\ metadata' = metadata
       ELSE /\ metadata' = metadata \cup {"last_update_duration"}
            /\ Finally(i, TRUE)
            /\ UNCHANGED <<retryCount, retryTimers, alerts>>
    /\ UNCHANGED <<nUpdates, skips, dbArticles, responseCache, invalidated, requests,
                   summarizerVars>>

\* alertFailure settles: its insert of 'last_failure' fails when the row
\* exists, and the error leaves processUpdate through the finally block.
AlertReturns(i) ==
    /\ updates[i].pc = "alerting"
    /\ IF "last_failure" \in metadata
       THEN /\ metadata' = metadata
            /\ Finally(i, FALSE)
       ELSE /\ metadata' = metadata \cup {"last_failure", "failure_reason"}
            /\ Finally(i, TRUE)
    /\ UNCHANGED <<retryCount, retryTimers, alerts, nUpdates, skips, dbArticles,
                   responseCache, invalidated, requests, summarizerVars>>

\* The handler of POST /api/refresh goes on after its processUpdate call:
\* cache.del(['summary', 'articles']).
RefreshReturns ==
    /\ refreshTails > 0
    /\ refreshTails' = refreshTails - 1
    /\ responseCache' = NoEntry
    /\ UNCHANGED <<isProcessing, retryCount, retryTimers, alerts, updates, nUpdates,
                   skips, dbArticles, metadata, invalidated, requests, summarizerVars>>

NextScheduler ==
    \/ \E origin \in Origins : Invoke(origin)
    \/ \E i \in DOMAIN updates, ok \in BOOLEAN : ScrapeReturns(i, ok)
    \/ \E i \in DOMAIN updates, ok \in BOOLEAN, written \in BOOLEAN : ArticlesSaved(i, ok, written)
    \/ \E i \in DOMAIN updates, ok \in BOOLEAN : Stamped(i, ok)
    \/ \E i \in DOMAIN updates : Recorded(i)
    \/ \E i \in DOMAIN updates : AlertReturns(i)
    \/ RefreshReturns

SpecScheduler == Init /\ [][NextScheduler]_vars

(***************************************************************************)
(* GET /api/summary and refreshSummaryInBackground.                        *)
(***************************************************************************)
\* The text of a summary that is not the fallback text.
SummaryText == <<"K", "e", "y">>

\* What summarize returns to the server for the articles it is given: the
\* fallback when no article is valid or fewer than half the valid articles
\* were processed, a summary with its confidence otherwise.
SummarizeOutcome(processed, valid) ==
    IF valid = 0 \/ IsLowConfidence(Confidence(processed, valid))
    THEN [summary |-> FallbackText, confidence |-> ZeroConfidence]
    ELSE [summary |-> SummaryText, confidence |-> Confidence(processed, valid)]

\* The numbers of processed and of valid articles of the summarize calls.
Outcomes == {<<0, 0>>, <<0, 1>>, <<1, 2>>, <<1, 1>>}

\* A variant that caches every result.
AtLeastHalfAlways(confidence) == TRUE

\* summary.confidence >= 0.5
AtLeastHalf(confidence) == 2 * confidence.num >= confidence.den

\* A handler at its first await, db.getLatestArticles().
NewRequest(kind) ==
    [kind |-> kind, pc |-> "articles", from |-> 0,
     result |-> [summary |-> <<>>, confidence |-> ZeroConfidence]]

\* GET /api/summary up to its first await.  A hit answers from the cache and
\* starts refreshSummaryInBackground when the entry expires within a minute;
\* a miss goes on to read the articles.
GetSummary(nearExpiry) ==
    /\ Len(requests) < MaxRequests
    /\ requests' = IF responseCache = NoEntry
                   THEN Append(requests, NewRequest("get"))
                   ELSE IF nearExpiry
                   THEN Append(requests, NewRequest("background"))
                   ELSE requests
    /\ UNCHANGED <<dbArticles, metadata, responseCache, invalidated, schedVars,
                   summarizerVars>>

\* await db.getLatestArticles() settles.
ArticlesRead(i, ok) ==
    /\ requests[i].pc = "articles"
    /\ requests' = [requests EXCEPT ![i].pc = IF ok THEN "summarizing" ELSE "failed",
                                    ![i].from = dbArticles]
    /\ UNCHANGED <<dbArticles, metadata, responseCache, invalidated, schedVars,
                   summarizerVars>>

\* await summarizer.summarize(articles) settles.
Summarized(i, processed, valid) ==
    /\ requests[i].pc = "summarizing"
    /\ requests' = [requests EXCEPT ![i].pc = "lastFetch",
                                    ![i].result = SummarizeOutcome(processed, valid)]
    /\ UNCHANGED <<dbArticles, metadata, responseCache, invalidated, schedVars,
                   summarizerVars>>

\* await db.getLastFetchTime() settles: the response is built, cached when
\* its confidence allows, and sent.
LastFetchRead(i, ok) ==
    /\ requests[i].pc = "lastFetch"
    /\ requests' = [requests EXCEPT ![i].pc = IF ok THEN "responded" ELSE "failed"]
    /\ responseCache' = IF ok /\ AtLeastHalf(requests[i].result.confidence)
                        THEN [summary |-> requests[i].result.summary,
                              confidence |-> requests[i].result.confidence,
                              from |-> requests[i].from]
                        ELSE responseCache
    /\ UNCHANGED <<dbArticles, metadata, invalidated, schedVars, summarizerVars>>

\* The entry of the cache expires (stdTTL).
Expire ==
    /\ responseCache # NoEntry
    /\ responseCache' = NoEntry
    /\ UNCHANGED <<dbArticles, metadata, invalidated, requests, schedVars,
                   summarizerVars>>

\* The scheduler with at most MaxServerUpdates processUpdate calls, which
\* cannot bring retryCount to maxRetries, and the handlers of the server.
NextServer ==
    \/ \E origin \in Origins : nUpdates < MaxServerUpdates /\ Invoke(origin)
    \/ \E i \in DOMAIN updates, ok \in BOOLEAN : ScrapeReturns(i, ok)
    \/ \E i \in DOMAIN updates, ok \in BOOLEAN, written \in BOOLEAN : ArticlesSaved(i, ok, written)
    \/ \E i \in DOMAIN updates, ok \in BOOLEAN : Stamped(i, ok)
    \/ \E i \in DOMAIN updates : Recorded(i)
    \/ RefreshReturns
    \/ \E nearExpiry \in BOOLEAN : GetSummary(nearExpiry)
    \/ \E i \in DOMAIN requests, ok \in BOOLEAN : ArticlesRead(i, ok)
    \/ \E i \in DOMAIN requests, outcome \in Outcomes : Summarized(i, outcome[1], outcome[2])
    \/ \E i \in DOMAIN requests, ok \in BOOLEAN : LastFetchRead(i, ok)
    \/ Expire

SpecServer == Init /\ [][NextServer]_vars

\* C35: at most one processUpdate body is in progress, and a processUpdate
\* call made while one is in progress returns at once: it starts no body and
\* changes neither the database, nor the response cache, nor retryCount.
C35_OneUpdateAtATime ==
    /\ [](Len(updates) <= 1)
    /\ [][(nUpdates' = nUpdates + 1 /\ updates # <<>>)
             => /\ updates' = updates
                /\ retryCount' = retryCount
                /\ dbArticles' = dbArticles
                /\ metadata' = metadata
                /\ responseCache' = responseCache
                /\ invalidated' = invalidated]_vars

\* A processUpdate call has returned at the isProcessing test while a body
\* was in progress past the scrape and the cache held a summary.
C35_Witness ==
    /\ skips > 0
    /\ nUpdates = skips + 1
    /\ Len(updates) = 1
    /\ updates[1].pc = "stamping"
    /\ responseCache # NoEntry

\* C36: retryCount stays within 0..maxRetries; a retry timer is set only by
\* a body that ends in failure having found retryCount below maxRetries, and
\* alertFailure is called only by a failing body that finds retryCount equal
\* to maxRetries.
C36_RetriesBounded ==
    /\ [](retryCount \in 0..maxRetries)
    /\ [][ /\ retryTimers' > retryTimers
               => /\ updates # <<>> /\ updates' = <<>>
                  /\ "last_update_duration" \notin (metadata' \ metadata)
                  /\ retryCount < maxRetries
                  /\ alerts' = alerts
           /\ alerts' > alerts
               => /\ updates # <<>>
                  /\ retryCount = maxRetries
                  /\ retryTimers' = retryTimers ]_vars

\* alertFailure has been called after maxRetries retry timers were set and
\* have fired.
C36_Witness ==
    /\ alerts = 1
    /\ retryCount = maxRetries
    /\ retryTimers = 0
    /\ nUpdates = maxRetries + 1
    /\ skips = 0

\* A processUpdate body has fetched the articles, saved them and deleted the
\* cache keys, and stands at its last await.
Recording == \E i \in DOMAIN updates : updates[i].pc = "recording"

\* C37: a processUpdate body whose fetch, save and cache invalidation have
\* succeeded ends with retryCount 0, sets no retry timer and does not call
\* alertFailure.
C37_SuccessfulRunResets ==
    [][(Recording /\ ~Recording')
          => /\ retryCount' = 0
             /\ retryTimers' = retryTimers
             /\ alerts' = alerts]_vars

\* C38: the value under 'summary' in the response cache is the result of a
\* summarize call of a handler that has answered, with confidence at least
\* 0.5, and is never the fallback.
C38_OnlyConfidentSummariesCached ==
    responseCache # NoEntry
        => /\ 2 * responseCache.confidence.num >= responseCache.confidence.den
           /\ responseCache.summary # FallbackText
           /\ \E i \in DOMAIN requests :
                 /\ requests[i].pc = "responded"
                 /\ requests[i].result.summary = responseCache.summary
                 /\ requests[i].result.confidence = responseCache.confidence
                 /\ requests[i].from = responseCache.from

\* A GET /api/summary has cached a summary of confidence exactly 0.5, and a
\* background refresh started by a later GET has finished with the fallback,
\* leaving the cached value in place.
C38_Witness ==
    /\ Len(requests) = 2
    /\ requests[1].kind = "get" /\ requests[1].pc = "responded"
    /\ requests[1].result.confidence = [num |-> 1, den |-> 2]
    /\ requests[2].kind = "background" /\ requests[2].pc = "responded"
    /\ requests[2].result.summary = FallbackText
    /\ responseCache # NoEntry
    /\ responseCache.confidence = requests[1].result.confidence

\* C39: the response cache never holds a summary computed from articles
\* older than those of the last update that saved its articles and deleted
\* the 'summary' key.
C39_NoStaleSummaryAfterUpdate ==
    responseCache # NoEntry => responseCache.from >= invalidated

====
